---- MODULE Spec2Model ----
(***************************************************************************)
(* A model of the invoice generator (invoice_generato.py): the paragraph   *)
(* level text substitution passes, the invoice table expansion with its    *)
(* identifier renumbering, the archive rewrite and the batch loop.         *)
(*                                                                         *)
(* Text is a sequence of tokens.  A token stands for a fixed piece of a    *)
(* Python string: the placeholder "Col A" is the two tokens "Col " and     *)
(* "A", the marker "Self generate" is the tokens "Self " and "generate",   *)
(* so that a literal can be split between two text leaves.                 *)
(*                                                                         *)
(* A document tree (the parsed word/document.xml) is the record            *)
(*   leaves  the w:t leaves outside tables, in document order              *)
(*   paras   the w:p elements outside tables, in document order, each the  *)
(*           interval <<lo, hi>> of the leaves that are its descendants    *)
(*           (lo > hi: a paragraph without a text leaf); a nested          *)
(*           paragraph's interval lies inside its ancestor's               *)
(*   ids     the identifier-bearing nodes outside tables                   *)
(*   tables  the w:tbl elements, after the paragraphs; a table is its      *)
(*           direct w:tr rows, a row its w:tc cells and its identifier     *)
(*           nodes, a cell one paragraph holding runs, a run its direct    *)
(*           w:t children.                                                 *)
(***************************************************************************)
EXTENDS Integers, Sequences, FiniteSets, TLC

VARIABLES
    xml_in,       \* the body the transform was given (a tree, or Malformed)
    data,         \* the field record (payload) of the document
    root,         \* the tree being mutated by the passes
    prev,         \* the tree as it was when the last pass started
    pc,           \* position in _transform_document_xml / the batch loop
    counter,      \* the local counter of _replace_self_generate, as it returned
    id_counter,   \* self._id_counter: the next value next() yields, 0 = not set
    xml_out,      \* what the first transform returned
    run,          \* 1: the transform; 2: the substitution passes run again
    files,        \* the file system: path -> archive
    idx,          \* generate_documents: index of the payload being processed
    buf,          \* _patch_docx: the in-memory output archive
    calls,        \* how often _patch_docx invoked the transform for this payload
    data_list,    \* self.data_list
    locked,       \* the paths the process cannot write to
    raised,       \* the exception that was raised and not caught, or None
    tbl,          \* the table _find_invoice_table returned (its index, 0: None)
    original_records,   \* RecordProcessor.original_records
    processed_records   \* RecordProcessor.processed_records

vars == <<xml_in, data, root, prev, pc, counter, id_counter, xml_out, run,
          files, idx, buf, calls, data_list, locked, raised,
         tbl, original_records, processed_records>>

----------------------------------------------------------------------------
(* Python str operations on token sequences                                *)

None == "None"

IsAt(s, pat, j) ==
    /\ j >= 1
    /\ j + Len(pat) - 1 <= Len(s)
    /\ SubSeq(s, j, j + Len(pat) - 1) = pat

\* pat in s
str_contains(s, pat) == \E j \in 1..Len(s) : IsAt(s, pat, j)

\* s.find(pat) + 1, for a pat that occurs in s
str_find(s, pat) == CHOOSE j \in 1..Len(s) : IsAt(s, pat, j) /\ \A k \in 1..(j - 1) : ~IsAt(s, pat, k)

\* s.replace(old, new): leftmost, non-overlapping occurrences (old is not empty)
RECURSIVE str_replace(_, _, _)
str_replace(s, old, new) ==
    IF ~str_contains(s, old) THEN s
    ELSE LET j == str_find(s, old)
         IN  SubSeq(s, 1, j - 1) \o new
               \o str_replace(SubSeq(s, j + Len(old), Len(s)), old, new)

\* s.split(sep): the pieces between the leftmost, non-overlapping occurrences
RECURSIVE str_split(_, _)
str_split(s, sep) ==
    IF ~str_contains(s, sep) THEN <<s>>
    ELSE LET j == str_find(s, sep)
         IN  <<SubSeq(s, 1, j - 1)>> \o str_split(SubSeq(s, j + Len(sep), Len(s)), sep)

\* "".join(texts)
RECURSIVE str_join(_)
str_join(texts) ==
    IF texts = <<>> THEN <<>> ELSE Head(texts) \o str_join(Tail(texts))

----------------------------------------------------------------------------
(* Field records                                                           *)

\* A value is Absent, a scalar [kind |-> "str" or "num", s |-> its text], or
\* a list [kind |-> "list", items |-> scalars].
Absent == [kind |-> "absent"]

Str(s) == [kind |-> "str", s |-> s]
Num(s) == [kind |-> "num", s |-> s]
List(items) == [kind |-> "list", items |-> items]

\* repr(x) of a list item: a string is quoted, a number is not
repr(v) == IF v.kind = "str" THEN <<"'">> \o v.s \o <<"'">> ELSE v.s

RECURSIVE repr_items(_)
repr_items(items) ==
    IF items = <<>> THEN <<>>
    ELSE IF Len(items) = 1 THEN repr(items[1])
    ELSE repr(items[1]) \o <<", ">> \o repr_items(Tail(items))

\* str(data.get(field, "")): an absent field gives "", a list its Python rendering
str_get(d, field) ==
    LET v == d[field]
    IN  CASE v.kind = "absent" -> <<>>
          [] v.kind = "list"   -> <<"[">> \o repr_items(v.items) \o <<"]">>
          [] OTHER             -> v.s

PLACEHOLDERS ==
    << << <<"Col ", "A">>, "Date of Entry" >>,
       << <<"Col ", "B">>, "Amount" >>,
       << <<"Col ", "C">>, "Description" >>,
       << <<"Col ", "D">>, "Beneficiary Name" >>,
       << <<"Col ", "E">>, "Bank Name" >>,
       << <<"Col ", "F">>, "Bank Account No" >>,
       << <<"Col ", "G">>, "IFSC/SWIFT Code" >>,
       << <<"Col ", "H">>, "IBAN No" >>,
       << <<"Col ", "I">>, "Address" >> >>

SELF_GEN_ORDER == <<"Invoice Number", None, "Total Amount", "Total Amount in Words">>

SelfGenerate == <<"Self ", "generate">>

FieldNames ==
    {PLACEHOLDERS[i][2] : i \in 1..Len(PLACEHOLDERS)}
      \cup {"Invoice Number", "Total Amount", "Total Amount in Words"}

----------------------------------------------------------------------------
(* Paragraphs and their text leaves                                        *)

\* the addresses of the cells of the tables, in document order
RECURSIVE cell_addrs(_, _, _, _)
cell_addrs(tables, t, r, c) ==
    IF t > Len(tables) THEN <<>>
    ELSE IF r > Len(tables[t]) THEN cell_addrs(tables, t + 1, 1, 1)
    ELSE IF c > Len(tables[t][r].cells) THEN cell_addrs(tables, t, r + 1, 1)
    ELSE <<<<"c", t, r, c>>>> \o cell_addrs(tables, t, r, c + 1)

\* root.iterfind(".//w:p"): every paragraph of the tree, nested ones included,
\* in document order
iter_paragraphs(tree) ==
    [i \in 1..Len(tree.paras) |-> <<"p", i>>] \o cell_addrs(tree.tables, 1, 1, 1)

\* list(p.iterfind(".//w:t")), as the texts (t.text or "") of the leaves
para_runs(tree, a) ==
    IF a[1] = "p"
    THEN SubSeq(tree.leaves, tree.paras[a[2]][1], tree.paras[a[2]][2])
    ELSE str_join(tree.tables[a[2]][a[3]].cells[a[4]])

\* the runs of a cell with the first text leaf set to text
RECURSIVE _set_first_leaf(_, _)
_set_first_leaf(runs, text) ==
    IF runs = <<>> THEN <<>>
    ELSE IF Head(runs) = <<>> THEN <<Head(runs)>> \o _set_first_leaf(Tail(runs), text)
    ELSE <<[Head(runs) EXCEPT ![1] = text]>> \o Tail(runs)

\* the runs of a cell with the first text leaf set to text and the rest blanked
RECURSIVE write_cell(_, _, _)
write_cell(runs, text, written) ==
    IF runs = <<>> THEN <<>>
    ELSE LET r == Head(runs)
             new == [k \in 1..Len(r) |-> IF ~written /\ k = 1 THEN text ELSE <<>>]
         IN  <<new>> \o write_cell(Tail(runs), text, written \/ Len(r) > 0)

\* a write-back that sets the first leaf and forgets to blank the others
para_write_keep(tree, a, text) ==
    IF a[1] = "p"
    THEN [tree EXCEPT !.leaves[tree.paras[a[2]][1]] = text]
    ELSE [tree EXCEPT !.tables[a[2]][a[3]].cells[a[4]] =
             _set_first_leaf(tree.tables[a[2]][a[3]].cells[a[4]], text)]

\* runs[0].text = text; for t in runs[1:]: t.text = ""
para_write(tree, a, text) ==
    IF a[1] = "p"
    THEN LET lo == tree.paras[a[2]][1]
             hi == tree.paras[a[2]][2]
         IN  [tree EXCEPT !.leaves =
                 [k \in 1..Len(tree.leaves) |->
                     IF k = lo THEN text
                     ELSE IF k > lo /\ k <= hi THEN <<>>
                     ELSE tree.leaves[k]]]
    ELSE [tree EXCEPT !.tables[a[2]][a[3]].cells[a[4]] =
             write_cell(tree.tables[a[2]][a[3]].cells[a[4]], text, FALSE)]

----------------------------------------------------------------------------
(* Pass A: _replace_placeholders                                           *)

\* for ph, field in self._PLACEHOLDERS.items(): para_text = para_text.replace(...)
RECURSIVE replace_each(_, _, _)
replace_each(text, d, i) ==
    IF i > Len(PLACEHOLDERS) THEN text
    ELSE replace_each(str_replace(text, PLACEHOLDERS[i][1], str_get(d, PLACEHOLDERS[i][2])),
                      d, i + 1)

RECURSIVE placeholders_loop(_, _, _)
placeholders_loop(tree, ps, d) ==
    IF ps = <<>> THEN tree
    ELSE LET runs == para_runs(tree, Head(ps))
         IN  IF runs = <<>> THEN placeholders_loop(tree, Tail(ps), d)
             ELSE placeholders_loop(
                      para_write(tree, Head(ps), replace_each(str_join(runs), d, 1)),
                      Tail(ps), d)

_replace_placeholders(tree, d) == placeholders_loop(tree, iter_paragraphs(tree), d)

----------------------------------------------------------------------------
(* Pass B: _replace_self_generate                                          *)

\* self._SELF_GEN_ORDER[counter - 1] if counter - 1 < len(...) else None
self_gen_field(c) == IF c - 1 < Len(SELF_GEN_ORDER) THEN SELF_GEN_ORDER[c] ELSE None

\* the loop over range(1, len(parts)); i is the 1-based index of parts[_]
RECURSIVE self_gen_rebuild(_, _, _, _, _)
self_gen_rebuild(parts, i, rebuilt, c, d) ==
    IF i > Len(parts) THEN [text |-> rebuilt, counter |-> c]
    ELSE LET c1    == c + 1
             field == self_gen_field(c1)
             sub   == IF field # None THEN str_get(d, field) ELSE SelfGenerate
         IN  self_gen_rebuild(parts, i + 1, rebuilt \o sub \o parts[i], c1, d)

RECURSIVE self_generate_loop(_, _, _, _)
self_generate_loop(tree, ps, c, d) ==
    IF ps = <<>> THEN [root |-> tree, counter |-> c]
    ELSE LET runs      == para_runs(tree, Head(ps))
             para_text == str_join(runs)
         IN  IF runs = <<>> \/ ~str_contains(para_text, SelfGenerate)
             THEN self_generate_loop(tree, Tail(ps), c, d)
             ELSE LET parts == str_split(para_text, SelfGenerate)
                      res   == self_gen_rebuild(parts, 2, parts[1], c, d)
                  IN  self_generate_loop(para_write(tree, Head(ps), res.text),
                                         Tail(ps), res.counter, d)

\* the tree after the pass, and the value the local counter ended with
_replace_self_generate(tree, d) == self_generate_loop(tree, iter_paragraphs(tree), 0, d)

----------------------------------------------------------------------------
(* Identifier-bearing nodes                                                *)

\* A site is [kind, v]: kind is the element (bookmarkStart, bookmarkEnd, docPr,
\* anchor) and v the attribute text, one token per digit: decimal for the w:id
\* and id attributes, hexadecimal for wp14:anchorId; NoAttr when the element
\* has no such attribute.
NoAttr == <<"NoAttr">>

Digits == <<"0", "1", "2", "3", "4", "5", "6", "7", "8", "9", "A", "B", "C", "D", "E", "F">>

digit_value(tok) == (CHOOSE k \in 1..Len(Digits) : Digits[k] = tok) - 1

\* int(text, base)
RECURSIVE int_parse(_, _)
int_parse(text, base) ==
    IF text = <<>> THEN 0
    ELSE base * int_parse(SubSeq(text, 1, Len(text) - 1), base) + digit_value(text[Len(text)])

\* the digits of a non-negative integer in a base
RECURSIVE int_digits(_, _)
int_digits(n, base) ==
    IF n < base THEN <<Digits[n + 1]>>
    ELSE int_digits(n \div base, base) \o <<Digits[(n % base) + 1]>>

\* str(n)
str_int(n) == int_digits(n, 10)

\* f"{n:08X}": at least eight digits, zero padded
hex_format(n) ==
    LET ds == int_digits(n, 16)
    IN  IF Len(ds) >= 8 THEN ds ELSE [i \in 1..(8 - Len(ds)) |-> "0"] \o ds

\* the integer _collect_existing_ids adds for a node: int(node.get(id, "0")),
\* base 16 for an anchor
id_value(site) ==
    IF site.v = NoAttr THEN 0
    ELSE IF site.kind = "anchor" THEN int_parse(site.v, 16)
    ELSE int_parse(site.v, 10)

\* every identifier node of the tree: outside the tables and in the rows that
\* are attached to a table
all_sites(tree) ==
    tree.ids \o str_join([t \in 1..Len(tree.tables) |->
                    str_join([r \in 1..Len(tree.tables[t]) |-> tree.tables[t][r].ids])])

_collect_existing_ids(tree) ==
    LET sites == all_sites(tree)
    IN  {id_value(sites[i]) : i \in 1..Len(sites)}

SetMax(S) == CHOOSE m \in S : \A x \in S : x <= m

\* the attribute a renumbered node gets: str(n), or the hexadecimal rendering
id_attr(kind, n) == IF kind = "anchor" THEN hex_format(n) ELSE str_int(n)

\* one "for node in row.iterfind(kind): node.set(id, next id)" loop of
\* _fix_unique_ids, from node i on; c is the value next() yields
RECURSIVE fix_kind(_, _, _, _)
fix_kind(ids, kind, i, c) ==
    IF i > Len(ids) THEN [ids |-> ids, c |-> c]
    ELSE IF ids[i].kind = kind
    THEN fix_kind([ids EXCEPT ![i].v = id_attr(kind, c)], kind, i + 1, c + 1)
    ELSE fix_kind(ids, kind, i + 1, c)

\* a renumbering that visits the nodes in document order, whatever their kind
RECURSIVE fix_from(_, _, _)
fix_from(ids, i, c) ==
    IF i > Len(ids) THEN [ids |-> ids, c |-> c]
    ELSE fix_from([ids EXCEPT ![i].v = id_attr(ids[i].kind, c)], i + 1, c + 1)

fix_in_node_order(ids, c) == fix_from(ids, 1, c)

\* the four loops, in the order of the source
_fix_unique_ids(ids, c) ==
    LET a == fix_kind(ids, "bookmarkStart", 1, c)
        b == fix_kind(a.ids, "bookmarkEnd", 1, a.c)
        e == fix_kind(b.ids, "docPr", 1, b.c)
    IN  fix_kind(e.ids, "anchor", 1, e.c)

----------------------------------------------------------------------------
(* Table location and population                                           *)

INVOICE_TABLE_HEADERS ==
    << <<"sr. no.">>, <<"description">>, <<"unit">>, <<"unit", "/ price">>, <<"amount">> >>

\* str.lower(), token by token
lower_token(tok) ==
    CASE tok = "Sr. No."     -> "sr. no."
      [] tok = "Description" -> "description"
      [] tok = "Unit"        -> "unit"
      [] tok = "/ Price"     -> "/ price"
      [] tok = "Amount"      -> "amount"
      [] OTHER               -> tok

str_lower(s) == [i \in 1..Len(s) |-> lower_token(s[i])]

\* str.strip(): leading and trailing white space removed (" " is the white token)
RECURSIVE str_strip(_)
str_strip(s) ==
    IF s = <<>> THEN s
    ELSE IF Head(s) = " " THEN str_strip(Tail(s))
    ELSE IF s[Len(s)] = " " THEN str_strip(SubSeq(s, 1, Len(s) - 1))
    ELSE s

\* the text of a cell: "".join(t.text or "" for t in c.iterfind(".//w:t"))
cell_text(cell) == str_join(str_join(cell))

header_texts(row) == {str_lower(str_strip(cell_text(row.cells[c]))) : c \in 1..Len(row.cells)}

\* a match that accepts a cell text containing the label
matches_by_substring(table) ==
    /\ Len(table) >= 1
    /\ \A h \in 1..Len(INVOICE_TABLE_HEADERS) :
          \E c \in 1..Len(table[1].cells) :
              str_contains(str_lower(str_strip(cell_text(table[1].cells[c]))),
                           INVOICE_TABLE_HEADERS[h])

table_matches(table) ==
    /\ Len(table) >= 1
    /\ \A h \in 1..Len(INVOICE_TABLE_HEADERS) : INVOICE_TABLE_HEADERS[h] \in header_texts(table[1])

\* the index of the first matching table, 0 for None
_find_invoice_table(tree) ==
    IF \E t \in 1..Len(tree.tables) : table_matches(tree.tables[t])
    THEN CHOOSE t \in 1..Len(tree.tables) :
            /\ table_matches(tree.tables[t])
            /\ \A u \in 1..(t - 1) : ~table_matches(tree.tables[u])
    ELSE 0

\* tc.find(".//w:r"), then its first direct w:t (created when missing), set to text
_set_first_run_text(cell, text) ==
    IF cell = <<>> THEN cell
    ELSE IF cell[1] = <<>> THEN [cell EXCEPT ![1] = <<text>>]
    ELSE [cell EXCEPT ![1][1] = text]

\* data.get(field, []) made a list when it is not one
as_list(d, field) ==
    LET v == d[field]
    IN  CASE v.kind = "absent" -> <<>>
          [] v.kind = "list"   -> v.items
          [] OTHER             -> <<v>>

\* the loop "for idx, (desc, amt) in enumerate(zip(...), start=1)", from idx on:
\* rows is the table so far, c the value next() yields
RECURSIVE add_rows(_, _, _, _, _, _)
add_rows(rows, template_row, descriptions, amounts, i, c) ==
    IF i > Len(descriptions) THEN [rows |-> rows, c |-> c, error |-> None]
    ELSE LET fixed == _fix_unique_ids(template_row.ids, c)
             tcs   == template_row.cells
         IN  IF Len(tcs) < 5
             THEN [rows |-> rows, c |-> fixed.c, error |-> "IndexError"]
             ELSE LET cells == [tcs EXCEPT
                                  ![1] = _set_first_run_text(tcs[1], str_int(i)),
                                  ![2] = _set_first_run_text(tcs[2], descriptions[i].s),
                                  ![5] = _set_first_run_text(tcs[5], amounts[i].s)]
                      new_row == [cells |-> cells, ids |-> fixed.ids]
                  IN  add_rows(Append(rows, new_row), template_row,
                               descriptions, amounts, i + 1, fixed.c)

\* every row after the template row re-appended: rows[2:]
restore_all_trailing(rows, n) ==
    IF Len(rows) > 2 THEN SubSeq(rows, 3, Len(rows)) ELSE <<>>

\* the rows re-appended after the clones: rows[len(descriptions) + 1:]
restored_rows(rows, n) ==
    IF Len(rows) > n + 1 THEN SubSeq(rows, n + 2, Len(rows)) ELSE <<>>

\* the ids found by _collect_existing_ids at the point where the source calls it:
\* after the rows from index 1 on were removed from the table
ids_at_collect(tree, t) ==
    _collect_existing_ids([tree EXCEPT !.tables[t] = <<tree.tables[t][1]>>])

\* a table fill without the length check: zip() stops at the shorter list
populate_unchecked(tree, d, idc) ==
    LET t            == _find_invoice_table(tree)
        descriptions == as_list(d, "Description")
        amounts      == as_list(d, "Amount")
        n            == IF Len(descriptions) < Len(amounts) THEN Len(descriptions)
                        ELSE Len(amounts)
        same         == [root |-> tree, id_counter |-> idc, error |-> None]
    IN  IF t = 0 THEN same
        ELSE IF Len(tree.tables[t]) < 2 THEN same
        ELSE LET rows     == tree.tables[t]
                 used_ids == ids_at_collect(tree, t)
                 start    == IF used_ids # {} THEN SetMax(used_ids) + 1 ELSE 1
                 added    == add_rows(<<rows[1]>>, rows[2], SubSeq(descriptions, 1, n),
                                      SubSeq(amounts, 1, n), 1, start)
                 final    == IF added.error = None
                             THEN added.rows \o restored_rows(rows, Len(descriptions))
                             ELSE added.rows
             IN  [root       |-> [tree EXCEPT !.tables[t] = final],
                  id_counter |-> added.c,
                  error      |-> added.error]

\* a table fill whose allocator goes on from the value a previous call left
populate_continue(tree, d, idc) ==
    LET t            == _find_invoice_table(tree)
        descriptions == as_list(d, "Description")
        amounts      == as_list(d, "Amount")
        same         == [root |-> tree, id_counter |-> idc, error |-> None]
    IN  IF t = 0 THEN same
        ELSE IF Len(descriptions) # Len(amounts) THEN same
        ELSE IF Len(tree.tables[t]) < 2 THEN same
        ELSE LET rows     == tree.tables[t]
                 used_ids == ids_at_collect(tree, t)
                 start    == IF idc # 0 THEN idc
                             ELSE IF used_ids # {} THEN SetMax(used_ids) + 1 ELSE 1
                 added    == add_rows(<<rows[1]>>, rows[2], descriptions, amounts, 1, start)
                 final    == IF added.error = None
                             THEN added.rows \o restored_rows(rows, Len(descriptions))
                             ELSE added.rows
             IN  [root       |-> [tree EXCEPT !.tables[t] = final],
                  id_counter |-> added.c,
                  error      |-> added.error]

\* the tree after the call, self._id_counter (idc when it was not assigned) and
\* the exception raised, if any
_populate_invoice_table(tree, d, idc) ==
    LET t            == _find_invoice_table(tree)
        descriptions == as_list(d, "Description")
        amounts      == as_list(d, "Amount")
        same         == [root |-> tree, id_counter |-> idc, error |-> None]
    IN  IF t = 0 THEN same
        ELSE IF Len(descriptions) # Len(amounts) THEN same
        ELSE IF Len(tree.tables[t]) < 2 THEN same
        ELSE LET rows     == tree.tables[t]
                 used_ids == ids_at_collect(tree, t)
                 start    == IF used_ids # {} THEN SetMax(used_ids) + 1 ELSE 1
                 added    == add_rows(<<rows[1]>>, rows[2], descriptions, amounts, 1, start)
                 final    == IF added.error = None
                             THEN added.rows \o restored_rows(rows, Len(descriptions))
                             ELSE added.rows
             IN  [root       |-> [tree EXCEPT !.tables[t] = final],
                  id_counter |-> added.c,
                  error      |-> added.error]

----------------------------------------------------------------------------
(* _transform_document_xml                                                 *)

EmptyTree == [leaves |-> <<>>, paras |-> <<>>, ids |-> <<>>, tables |-> <<>>]

\* The bytes of an archive entry: wf says whether they are well-formed XML, tree
\* is then the tree they parse to; raw identifies any other content.
XmlBytes(tree) == [wf |-> TRUE, tree |-> tree, raw |-> "xml"]
RawBytes(raw) == [wf |-> FALSE, tree |-> EmptyTree, raw |-> raw]
NoBytes == RawBytes("")

\* ET.tostring(root, encoding="utf-8", xml_declaration=True)
tostring(tree) == XmlBytes(tree)

\* the whole transform: the bytes returned, the final counter of the ordinal
\* pass, self._id_counter, and the exception raised (ET.fromstring raises
\* ParseError on bytes that are not well-formed)
_transform_document_xml(xml_bytes, d, idc) ==
    IF ~xml_bytes.wf
    THEN [xml_out |-> NoBytes, counter |-> 0, id_counter |-> idc, error |-> "ParseError"]
    ELSE LET a == _replace_placeholders(xml_bytes.tree, d)
             b == _replace_self_generate(a, d)
             c == _populate_invoice_table(b.root, d, idc)
         IN  [xml_out    |-> IF c.error = None THEN tostring(c.root) ELSE NoBytes,
              counter    |-> b.counter,
              id_counter |-> c.id_counter,
              error      |-> c.error]

----------------------------------------------------------------------------
(* The transform, one step per call it makes                               *)

\* no table looked for yet, and no RecordProcessor
NoRecords ==
    /\ tbl = 0
    /\ original_records = <<>>
    /\ processed_records = <<>>

NoBatch ==
    /\ files = <<>>
    /\ idx = 0
    /\ buf = <<>>
    /\ calls = 0
    /\ data_list = <<>>
    /\ locked = {}

InitTransform(inputs, records) ==
    /\ xml_in \in inputs
    /\ data \in records
    /\ root = EmptyTree
    /\ prev = EmptyTree
    /\ pc = "start"
    /\ counter = 0
    /\ id_counter = 0
    /\ xml_out = NoBytes
    /\ run = 1
    /\ raised = None
    /\ NoBatch
    /\ NoRecords

\* root = ET.fromstring(xml_bytes)
Parse ==
    /\ pc = "start"
    /\ IF xml_in.wf
       THEN /\ root' = xml_in.tree
            /\ pc' = "parsed"
            /\ raised' = raised
       ELSE /\ root' = root
            /\ pc' = "raised"
            /\ raised' = "ParseError"
    /\ UNCHANGED <<xml_in, data, prev, counter, id_counter, xml_out, run,
                   files, idx, buf, calls, data_list, locked>>
    /\ UNCHANGED <<tbl, original_records, processed_records>>

ReplacePlaceholders ==
    /\ pc = "parsed"
    /\ prev' = root
    /\ root' = _replace_placeholders(root, data)
    /\ pc' = "placeholders"
    /\ UNCHANGED <<xml_in, data, counter, id_counter, xml_out, run, raised,
                   files, idx, buf, calls, data_list, locked>>
    /\ UNCHANGED <<tbl, original_records, processed_records>>

ReplaceSelfGenerate ==
    /\ pc = "placeholders"
    /\ prev' = root
    /\ LET res == _replace_self_generate(root, data)
       IN  /\ root' = res.root
           /\ counter' = res.counter
    /\ pc' = "self_generate"
    /\ UNCHANGED <<xml_in, data, id_counter, xml_out, run, raised,
                   files, idx, buf, calls, data_list, locked>>
    /\ UNCHANGED <<tbl, original_records, processed_records>>

PopulateInvoiceTable ==
    /\ pc = "self_generate"
    /\ run = 1
    /\ prev' = root
    /\ LET res == _populate_invoice_table(root, data, id_counter)
       IN  /\ root' = res.root
           /\ id_counter' = res.id_counter
           /\ raised' = res.error
           /\ pc' = IF res.error = None THEN "populated" ELSE "raised"
    /\ UNCHANGED <<xml_in, data, counter, xml_out, run,
                   files, idx, buf, calls, data_list, locked>>
    /\ tbl' = _find_invoice_table(root)
    /\ UNCHANGED <<original_records, processed_records>>

\* return ET.tostring(root, ...)
Return ==
    /\ pc = "populated"
    /\ xml_out' = tostring(root)
    /\ pc' = "returned"
    /\ UNCHANGED <<xml_in, data, root, prev, counter, id_counter, run, raised,
                   files, idx, buf, calls, data_list, locked>>
    /\ UNCHANGED <<tbl, original_records, processed_records>>

\* the substitution passes are run once more, with the same record, on the
\* document the transform returned
SecondPass ==
    /\ pc = "returned"
    /\ run = 1
    /\ run' = 2
    /\ root' = xml_out.tree
    /\ pc' = "parsed"
    /\ UNCHANGED <<xml_in, data, prev, counter, id_counter, xml_out, raised,
                   files, idx, buf, calls, data_list, locked>>
    /\ UNCHANGED <<tbl, original_records, processed_records>>

NextTransform ==
    \/ Parse
    \/ ReplacePlaceholders
    \/ ReplaceSelfGenerate
    \/ PopulateInvoiceTable
    \/ Return
    \/ SecondPass

----------------------------------------------------------------------------
(* Inputs of the text passes: documents of paragraphs, nested or not       *)

MaxLeaves == 2
MaxParas == 2

\* what one text leaf holds: nothing, a placeholder (after plain text) or one
\* half of it, the marker three times or one half of it
LeafTexts ==
    { <<>>, <<"Col ">>, <<"D">>, <<"x", "Col ", "D">>,
      <<"Self ">>, <<"generate">>, SelfGenerate \o SelfGenerate \o SelfGenerate }

NoLeaves == <<1, 0>>

Intervals(n) == {<<lo, hi>> : lo \in 1..n, hi \in 1..n} \ {<<lo, hi>> \in (1..n) \X (1..n) : lo > hi}

\* p comes before q in document order and the two are nested or disjoint
InTreeOrder(p, q) ==
    \/ p[2] < q[1]
    \/ p[1] <= q[1] /\ q[2] <= p[2]

\* the paragraph structures over n leaves: up to MaxParas paragraphs, every leaf
\* in a paragraph, a paragraph without leaves only as the last one
ParaShapes(n) ==
    LET cand == UNION {[1..k -> Intervals(n) \cup {NoLeaves}] : k \in 1..MaxParas}
    IN  {ps \in cand :
           /\ \A i \in 1..Len(ps) : ps[i] = NoLeaves => i = Len(ps)
           /\ \A i, j \in 1..Len(ps) :
                 (i < j /\ ps[j] # NoLeaves) => InTreeOrder(ps[i], ps[j])
           /\ \A l \in 1..n : \E i \in 1..Len(ps) : ps[i][1] <= l /\ l <= ps[i][2]}

TextTrees ==
    UNION {{[leaves |-> ls, paras |-> ps, ids |-> <<>>, tables |-> <<>>] :
              ls \in [1..n -> LeafTexts], ps \in ParaShapes(n)} : n \in 1..MaxLeaves}

TextInputs == {XmlBytes(t) : t \in TextTrees}

AllAbsent == [f \in FieldNames |-> Absent]

\* a complete record, as the record-grouping stage supplies it
RecordFull ==
    [AllAbsent EXCEPT
        !["Date of Entry"] = Str(<<"date">>),
        !["Amount"] = Num(<<"7">>),
        !["Description"] = Str(<<"desc">>),
        !["Beneficiary Name"] = Str(<<"bob">>),
        !["Invoice Number"] = Str(<<"inv">>),
        !["Total Amount"] = Num(<<"7">>),
        !["Total Amount in Words"] = Str(<<"seven">>)]

\* a record whose values contain a placeholder and the marker, and that lacks
\* the invoice number
RecordEcho ==
    [AllAbsent EXCEPT
        !["Date of Entry"] = Str(<<"date">>),
        !["Beneficiary Name"] = Str(<<"Col ", "A">>),
        !["Total Amount"] = Num(<<"7">>),
        !["Total Amount in Words"] = Str(SelfGenerate)]

TextRecords == {RecordFull, RecordEcho}

InitText == InitTransform(TextInputs, TextRecords)

SpecText == InitText /\ [][NextTransform]_vars

----------------------------------------------------------------------------
(* Claims about the text passes (SpecText)                                 *)

\* the logical text of a paragraph: the concatenation of its text leaves
para_text(tree, a) == str_join(para_runs(tree, a))

has_runs(tree, a) == para_runs(tree, a) # <<>>

\* the paragraph at address a lies inside another paragraph
IsNested(tree, a) ==
    /\ a[1] = "p"
    /\ \E j \in 1..(a[2] - 1) :
          /\ tree.paras[j][1] <= tree.paras[a[2]][1]
          /\ tree.paras[a[2]][2] <= tree.paras[j][2]

\* the paragraph at address a contains another paragraph
HasNested(tree, a) ==
    /\ a[1] = "p"
    /\ \E j \in (a[2] + 1)..Len(tree.paras) :
          /\ tree.paras[j] # NoLeaves
          /\ tree.paras[a[2]][1] <= tree.paras[j][1]
          /\ tree.paras[j][2] <= tree.paras[a[2]][2]

Addresses(tree) == {iter_paragraphs(tree)[i] : i \in 1..Len(iter_paragraphs(tree))}

\* the number of occurrences of the marker in a text, left to right
Occurrences(text) == Len(str_split(text, SelfGenerate)) - 1

\* the occurrences in the outermost paragraphs that come before paragraph i
RECURSIVE OccurrencesBefore(_, _)
OccurrencesBefore(tree, i) ==
    IF i <= 1 THEN 0
    ELSE LET a == iter_paragraphs(tree)[i - 1]
         IN  OccurrencesBefore(tree, i - 1)
               + (IF IsNested(tree, a) THEN 0 ELSE Occurrences(para_text(tree, a)))

\* what the k-th occurrence becomes according to the ordinal table
OrdinalTable == <<"Invoice Number", None, "Total Amount", "Total Amount in Words">>

OrdinalValue(k, d) ==
    IF k > Len(OrdinalTable) \/ OrdinalTable[k] = None THEN SelfGenerate
    ELSE str_get(d, OrdinalTable[k])

\* parts[1] sub(k + 1) parts[2] sub(k + 2) ... parts[n]
RECURSIVE OrdinalJoin(_, _, _)
OrdinalJoin(parts, k, d) ==
    IF Len(parts) = 1 THEN parts[1]
    ELSE parts[1] \o OrdinalValue(k + 1, d) \o OrdinalJoin(Tail(parts), k + 1, d)

\* C4: after the ordinal pass, the k-th occurrence of "Self generate" in
\* document order is replaced by the value of the k-th entry of the ordinal
\* table, and stays the literal marker when that entry is None or k is beyond
\* the table: the text of every outermost paragraph is its text before the
\* pass with its occurrences replaced that way, the count continuing from the
\* paragraphs before it.
C4_OrdinalSubstitution ==
    (pc = "self_generate" /\ run = 1) =>
        \A i \in 1..Len(iter_paragraphs(prev)) :
            LET a == iter_paragraphs(prev)[i]
            IN  (has_runs(prev, a) /\ ~IsNested(prev, a)) =>
                    para_text(root, a) =
                        OrdinalJoin(str_split(para_text(prev, a), SelfGenerate),
                                    OccurrencesBefore(prev, i), data)

\* C5: after the placeholder pass, every paragraph with a text leaf has as its
\* logical text the unsplit text it had with every placeholder replaced by
\* the field's value ("" when absent), held by its first leaf, every later
\* leaf being empty.
C5_RunSplitIndependent ==
    (pc = "placeholders" /\ run = 1) =>
        \A a \in Addresses(prev) :
            has_runs(prev, a) =>
                LET runs == para_runs(root, a)
                IN  /\ runs[1] = replace_each(para_text(prev, a), data, 1)
                    /\ \A k \in 2..Len(runs) : runs[k] = <<>>

\* the occurrences of the marker in the document: those of the texts of its
\* outermost paragraphs
DocumentOccurrences(tree) == OccurrencesBefore(tree, Len(iter_paragraphs(tree)) + 1)

\* C14: the counter of the ordinal pass is incremented once per occurrence of
\* the marker, nested paragraphs and occurrences left as the literal included:
\* its final value is the number of occurrences in the document the pass was
\* given.
C14_CountedOnce ==
    (pc = "self_generate" /\ run = 1) => counter = DocumentOccurrences(prev)

\* a text holds one of the nine placeholders
HasPlaceholder(text) == \E i \in 1..Len(PLACEHOLDERS) : str_contains(text, PLACEHOLDERS[i][1])

Unchanged2(before, after) ==
    \A a \in Addresses(before) : para_text(after, a) = para_text(before, a)

\* C8 as stated: the substitution passes run again on the output leave every
\* paragraph's text unchanged.
C8_SecondPassNoOp ==
    (pc = "self_generate" /\ run = 2) => Unchanged2(xml_out.tree, root)

\* the output of the first run holds no placeholder and no marker
OutputClean ==
    \A a \in Addresses(xml_out.tree) :
        /\ ~HasPlaceholder(para_text(xml_out.tree, a))
        /\ ~str_contains(para_text(xml_out.tree, a), SelfGenerate)

\* C8, amended: when the output of the first run holds no placeholder literal
\* and no occurrence of the marker, the passes run again leave every
\* paragraph's text unchanged.
C8_SecondPassNoOpWhenClean ==
    (pc = "self_generate" /\ run = 2 /\ OutputClean) => Unchanged2(xml_out.tree, root)

\* the second run has ended on a clean output of a first run that replaced
\* a placeholder or a marker
C8_Witness ==
    /\ pc = "self_generate"
    /\ run = 2
    /\ OutputClean
    /\ \E a \in Addresses(xml_in.tree) :
          \/ HasPlaceholder(para_text(xml_in.tree, a))
          \/ str_contains(para_text(xml_in.tree, a), SelfGenerate)

----------------------------------------------------------------------------
(* Inputs of the table expansion: documents with tables                    *)

MaxDataRows == 3
MaxItems == 3

Site(kind, v) == [kind |-> kind, v |-> v]

\* a cell whose paragraph has one run with one text leaf
Cell(text) == << << text >> >>

Row(cells, ids) == [cells |-> cells, ids |-> ids]

\* the header row of the invoice table, as an author types it: capitals and
\* surrounding blanks, the columns in the template's order
HeaderCells ==
    << Cell(<<"Sr. No.">>), Cell(<<" ", "Description">>), Cell(<<"Unit">>),
       Cell(<<"Unit", "/ Price">>), Cell(<<"Amount", " ">>) >>

\* a header row that only contains the label "amount" inside a longer text
DecoyCells == [HeaderCells EXCEPT ![5] = Cell(<<"Amount", " ", "x">>)]

HeaderRow == Row(HeaderCells, <<>>)

\* first data rows: a plain one with a bookmark pair; one whose cells have no
\* run, a run without a text leaf and two runs, with a node of every kind;
\* one with four cells only
TemplateRows ==
    { Row(<< Cell(<<"n">>), Cell(<<"Col ", "C">>), Cell(<<>>), Cell(<<>>), Cell(<<"Col ", "B">>) >>,
          << Site("bookmarkStart", <<"1">>), Site("bookmarkEnd", <<"1">>) >>),
      Row(<< <<>>, << <<>> >>, Cell(<<"u">>), Cell(<<>>), << <<<<"a">>>>, <<<<"b">>>> >> >>,
          << Site("bookmarkStart", <<"3">>), Site("anchor", <<"0", "0", "0", "0", "0", "0", "0", "5">>),
             Site("docPr", <<"6">>), Site("bookmarkEnd", <<"4">>) >>),
      Row(<< Cell(<<"n">>), Cell(<<"d">>), Cell(<<>>), Cell(<<"a">>) >>, <<>>) }

\* rows after the first data row: a totals row, with and without identifiers
TrailingRows ==
    { Row(<< Cell(<<"total">>), Cell(<<>>), Cell(<<>>), Cell(<<>>), Cell(<<"Col ", "B">>) >>, <<>>),
      Row(<< Cell(<<"total">>), Cell(<<>>), Cell(<<>>), Cell(<<>>), Cell(<<"sum">>) >>,
          << Site("bookmarkStart", <<"2">>), Site("docPr", <<"3">>),
             Site("bookmarkEnd", <<"7">>) >>) }

\* the rows of an invoice table: the header, then up to MaxDataRows rows
InvoiceTables ==
    {<<HeaderRow>>}
      \cup UNION {{<<HeaderRow, t>> \o f : t \in TemplateRows, f \in [1..k -> TrailingRows]} :
                    k \in 0..(MaxDataRows - 1)}

DecoyTable ==
    << Row(DecoyCells, <<>>),
       Row(<<Cell(<<"n">>)>>, <<Site("docPr", <<"9">>), Site("anchor", NoAttr)>>) >>

\* the content outside the tables: none, or two paragraphs and a drawing
Bodies ==
    { [leaves |-> <<>>, paras |-> <<>>, ids |-> <<>>],
      [leaves |-> << <<"Col ">>, <<"D">>, SelfGenerate \o SelfGenerate >>,
       paras |-> << <<1, 2>>, <<3, 3>> >>,
       ids |-> << Site("docPr", <<"1">>) >>] }

TableTrees ==
    {[leaves |-> b.leaves, paras |-> b.paras, ids |-> b.ids, tables |-> ts] :
        b \in Bodies,
        ts \in {<<t>> : t \in InvoiceTables} \cup {<<DecoyTable, t>> : t \in InvoiceTables}
                 \cup {<<DecoyTable>>}}

TableInputs == {XmlBytes(t) : t \in TableTrees}

Descriptions(n) == [i \in 1..n |-> Str(<<"item">> \o str_int(i))]
Amounts(n) == [i \in 1..n |-> Num(str_int(i))]

\* records with lists of equal lengths and of lengths that differ by one,
\* with scalars, with a scalar and a list, and with the two fields absent
TableRecords ==
    {[RecordFull EXCEPT !["Description"] = List(Descriptions(nm[1])),
                        !["Amount"] = List(Amounts(nm[2]))] :
        nm \in {x \in (0..MaxItems) \X (0..MaxItems) : x[2] \in {0, x[1] - 1, x[1]}}}
      \cup {RecordFull,
            [RecordFull EXCEPT !["Amount"] = List(Amounts(2))],
            [RecordFull EXCEPT !["Description"] = Absent, !["Amount"] = Absent]}

InitTable == InitTransform(TableInputs, TableRecords)

SpecTable == InitTable /\ [][NextTransform]_vars

----------------------------------------------------------------------------
(* Claims about the table expansion (SpecTable)                            *)

ItemCount == Len(as_list(data, "Description"))

EqualLengths == Len(as_list(data, "Description")) = Len(as_list(data, "Amount"))

\* the table step has run on a located table with a data row and n >= 1
\* equal-length items; prev is the tree it was given
Expanded ==
    /\ pc = "populated"
    /\ run = 1
    /\ _find_invoice_table(prev) # 0
    /\ EqualLengths
    /\ ItemCount >= 1
    /\ Len(prev.tables[_find_invoice_table(prev)]) >= 2

\* the text of the first text leaf of the first run of a cell that has a run
FirstRunText(cell) == cell[1][1]

\* the row is filled with the i-th item: ordinal, description and amount are
\* the first-run texts of the cells 0, 1 and 4 (for the cells that have a run)
Filled(row, i) ==
    /\ Len(row.cells) >= 5
    /\ row.cells[1] # <<>> => FirstRunText(row.cells[1]) = str_int(i)
    /\ row.cells[2] # <<>> => FirstRunText(row.cells[2]) = as_list(data, "Description")[i].s
    /\ row.cells[5] # <<>> => FirstRunText(row.cells[5]) = as_list(data, "Amount")[i].s

\* C1: a located table [header, data-row template, F trailing rows] and N >= 1
\* items give exactly 1 + N + F rows: the header, N clones filled with the
\* ordinals 1..N in item order, then the F trailing rows, in their order and
\* unmodified.
C1_FooterKept ==
    Expanded =>
        LET before == prev.tables[_find_invoice_table(prev)]
            after  == root.tables[_find_invoice_table(prev)]
            f      == Len(before) - 2
        IN  /\ Len(after) = 1 + ItemCount + f
            /\ after[1] = before[1]
            /\ \A i \in 1..ItemCount : Filled(after[1 + i], i)
            /\ \A j \in 1..f : after[1 + ItemCount + j] = before[2 + j]

\* the uniqueness domain of a node
Domain(kind) == IF kind \in {"bookmarkStart", "bookmarkEnd"} THEN "bookmark" ELSE kind

\* no two nodes of one domain that carry an identifier share its value
DistinctIds(tree) ==
    LET sites == all_sites(tree)
    IN  \A i, j \in 1..Len(sites) :
            (/\ i < j
             /\ Domain(sites[i].kind) = Domain(sites[j].kind)
             /\ sites[i].v # NoAttr
             /\ sites[j].v # NoAttr) => id_value(sites[i]) # id_value(sites[j])

\* C2: when the identifiers of the input document are pairwise distinct within
\* each domain, then after the table step no two identifier nodes of one
\* domain anywhere in the document share a value.
C2_UniqueIds ==
    (pc = "populated" /\ run = 1 /\ DistinctIds(xml_in.tree)) => DistinctIds(root)

\* the identifier values carried by the nodes of a tree
IdValues(tree) ==
    {id_value(all_sites(tree)[i]) :
        i \in {k \in 1..Len(all_sites(tree)) : all_sites(tree)[k].v # NoAttr}}

KindCount(ids, kind) == Cardinality({k \in 1..Len(ids) : ids[k].kind = kind})

\* the bookmark ids of the clones: rows 2 .. N + 1 of the expanded table
CloneBookmarkIds(rows, n) ==
    UNION {{id_value(rows[1 + i].ids[k]) :
              k \in {x \in 1..Len(rows[1 + i].ids) : Domain(rows[1 + i].ids[x].kind) = "bookmark"}} :
           i \in 1..n}

\* C3: expanding N rows from a template row with one bookmarkStart/bookmarkEnd
\* pair gives clones with 2N pairwise distinct bookmark ids, none of them a
\* value that an identifier of the document had before the expansion.
C3_FreshIds ==
    (/\ Expanded
     /\ KindCount(prev.tables[_find_invoice_table(prev)][2].ids, "bookmarkStart") = 1
     /\ KindCount(prev.tables[_find_invoice_table(prev)][2].ids, "bookmarkEnd") = 1) =>
        LET clones == CloneBookmarkIds(root.tables[_find_invoice_table(prev)], ItemCount)
        IN  /\ Cardinality(clones) = 2 * ItemCount
            /\ clones \cap IdValues(prev) = {}

\* the tree without the identifier nodes of the other domains
OnlyDomain(tree, dom) ==
    LET keep(ids) == SelectSeq(ids, LAMBDA site : Domain(site.kind) = dom)
    IN  [tree EXCEPT
           !.ids = keep(tree.ids),
           !.tables = [t \in 1..Len(tree.tables) |->
                          [r \in 1..Len(tree.tables[t]) |->
                              [tree.tables[t][r] EXCEPT !.ids = keep(tree.tables[t][r].ids)]]]]

\* the values the nodes of a domain carry in the clones, in row and node order
DomainValues(rows, n, dom) ==
    [i \in 1..n |->
        LET ids == SelectSeq(rows[1 + i].ids, LAMBDA site : Domain(site.kind) = dom)
        IN  [k \in 1..Len(ids) |-> id_value(ids[k])]]

\* the values of a domain that the collection finds in the tree
DomainUsed(tree, t, dom) ==
    ids_at_collect(OnlyDomain(tree, dom), t)

Domains == {"bookmark", "docPr", "anchor"}

KindOrder == <<"bookmarkStart", "bookmarkEnd", "docPr", "anchor">>

KindRank(kind) == CHOOSE r \in 1..Len(KindOrder) : KindOrder[r] = kind

\* the number of nodes of a row renumbered before its k-th node
DrawIndex(ids, k) ==
    Cardinality({j \in 1..Len(ids) :
                    \/ KindRank(ids[j].kind) < KindRank(ids[k].kind)
                    \/ ids[j].kind = ids[k].kind /\ j < k})

IsCloneOf(row, template_row, i) ==
    /\ Filled(row, i)
    /\ Len(row.cells) = Len(template_row.cells)
    /\ \A c \in 1..Len(row.cells) : c \notin {1, 2, 5} => row.cells[c] = template_row.cells[c]
    /\ Len(row.ids) = Len(template_row.ids)
    /\ \A k \in 1..Len(row.ids) : row.ids[k].kind = template_row.ids[k].kind

RowFrame(tree) ==
    [t \in 1..Len(tree.tables) |->
        [r \in 1..Len(tree.tables[t]) |->
            <<Len(tree.tables[t][r].cells), tree.tables[t][r].ids>>]]

\* C7: when Description and Amount have different lengths (a scalar counting as
\* a one-element list) the transform does not raise, the tree it serializes is
\* the input with the placeholder pass and the ordinal pass applied to every
\* paragraph, and every table has the rows it had: none removed, cloned or
\* renumbered.
C7_MismatchSkipsTable ==
    (xml_in.wf /\ ~EqualLengths /\ run = 1) =>
        /\ pc # "raised"
        /\ pc \in {"populated", "returned"} =>
              /\ root = _replace_self_generate(_replace_placeholders(xml_in.tree, data), data).root
              /\ RowFrame(root) = RowFrame(xml_in.tree)
        /\ pc = "returned" => xml_out = tostring(root)

\* a document with a located table that has data rows and with placeholders
\* outside it was returned for a record whose lists differ in length
C7_Witness ==
    /\ pc = "returned"
    /\ run = 1
    /\ ~EqualLengths
    /\ ItemCount >= 1
    /\ _find_invoice_table(xml_in.tree) # 0
    /\ Len(xml_in.tree.tables[_find_invoice_table(xml_in.tree)]) >= 3
    /\ xml_in.tree.leaves # <<>>
    /\ root.leaves # xml_in.tree.leaves

----------------------------------------------------------------------------
(* _patch_docx and generate_documents                                      *)

\* An archive entry: its name, its bytes and its compression mode.
Entry(name, bytes, mode) == [name |-> name, bytes |-> bytes, mode |-> mode]

BodyName == "word/document.xml"

\* A file: absent, or present with content that is a zip archive (its entries,
\* in order) or not.
NoFile == [exists |-> FALSE, zip |-> FALSE, entries |-> <<>>]
ZipFile(entries) == [exists |-> TRUE, zip |-> TRUE, entries |-> entries]
OtherFile == [exists |-> TRUE, zip |-> FALSE, entries |-> <<>>]

TemplatePath == <<"Invoice format", ".docx">>

\* os.path.join(self.output_dir, f"{file_name}.docx"), file_name being
\* payload.get("Invoice Number"): None when the field is absent
target_docx(payload) ==
    (IF payload["Invoice Number"].kind = "absent" THEN <<"None">>
     ELSE str_get(payload, "Invoice Number")) \o <<".docx">>

\* zin.read(name): the content of the entry the archive's name table holds for
\* the name, which is the last entry of that name
zip_read(entries, name) ==
    LET last == CHOOSE i \in 1..Len(entries) :
                    /\ entries[i].name = name
                    /\ \A j \in (i + 1)..Len(entries) : entries[j].name # name
    IN  entries[last].bytes

\* zout.writestr(item, bytes) with item a ZipInfo: its name and compression
\* mode are kept
zip_writestr(item, bytes) == Entry(item.name, bytes, item.mode)

\* the one element of a singleton set
Only(S) == CHOOSE x \in S : TRUE

\* a loop that reports what it has written so far as the finished archive when
\* the transform fails
RECURSIVE patch_loop_partial(_, _, _, _, _, _, _)
patch_loop_partial(entries, i, out, d, idc, n, c) ==
    IF i > Len(entries)
    THEN [buf |-> out, id_counter |-> idc, calls |-> n, counter |-> c, error |-> None]
    ELSE IF entries[i].name = BodyName
    THEN Only({ IF res.error # None
                THEN [buf |-> out, id_counter |-> res.id_counter, calls |-> n + 1,
                      counter |-> res.counter, error |-> None]
                ELSE patch_loop_partial(entries, i + 1,
                                Append(out, zip_writestr(entries[i], res.xml_out)),
                                d, res.id_counter, n + 1, res.counter) :
                res \in {_transform_document_xml(zip_read(entries, BodyName), d, idc)} })
    ELSE patch_loop_partial(entries, i + 1,
                    Append(out, zip_writestr(entries[i], zip_read(entries, entries[i].name))),
                    d, idc, n, c)

\* the loop over zin.infolist(), from entry i on: out is the archive written so
\* far, idc self._id_counter, n the number of transform calls, c the counter
\* the last ordinal pass ended with (the transform's result is bound through a
\* singleton set so that it is computed once)
RECURSIVE patch_loop(_, _, _, _, _, _, _)
patch_loop(entries, i, out, d, idc, n, c) ==
    IF i > Len(entries)
    THEN [buf |-> out, id_counter |-> idc, calls |-> n, counter |-> c, error |-> None]
    ELSE IF entries[i].name = BodyName
    THEN Only({ IF res.error # None
                THEN [buf |-> out, id_counter |-> res.id_counter, calls |-> n + 1,
                      counter |-> res.counter, error |-> res.error]
                ELSE patch_loop(entries, i + 1,
                                Append(out, zip_writestr(entries[i], res.xml_out)),
                                d, res.id_counter, n + 1, res.counter) :
                res \in {_transform_document_xml(zip_read(entries, BodyName), d, idc)} })
    ELSE patch_loop(entries, i + 1,
                    Append(out, zip_writestr(entries[i], zip_read(entries, entries[i].name))),
                    d, idc, n, c)

PayloadPending == pc \in {"loop", "saved"} /\ idx < Len(data_list)

\* shutil.copy2(self.template_path, target_docx) for the next payload
Copy ==
    /\ PayloadPending
    /\ idx' = idx + 1
    /\ data' = data_list[idx + 1]
    /\ calls' = 0
    /\ LET target == target_docx(data_list[idx + 1])
       IN  IF ~files[TemplatePath].exists
           THEN /\ raised' = "FileNotFoundError"
                /\ pc' = "raised"
                /\ files' = files
           ELSE IF target \in locked
           THEN /\ raised' = "PermissionError"
                /\ pc' = "raised"
                /\ files' = files
           ELSE /\ raised' = raised
                /\ pc' = "copied"
                /\ files' = [files EXCEPT ![target] = files[TemplatePath]]
    /\ UNCHANGED <<xml_in, root, prev, counter, id_counter, xml_out, run,
                   buf, data_list, locked>>
    /\ UNCHANGED <<tbl, original_records, processed_records>>

\* _patch_docx, the "with zipfile.ZipFile(docx_path) as zin" block: the whole
\* archive is assembled in buf
PatchAssemble ==
    /\ pc = "copied"
    /\ LET file == files[target_docx(data)]
       IN  IF ~file.zip
           THEN /\ raised' = "BadZipFile"
                /\ pc' = "raised"
                /\ UNCHANGED <<buf, id_counter, calls, counter>>
           ELSE \E res \in {patch_loop(file.entries, 1, <<>>, data, id_counter, 0, counter)} :
                    /\ buf' = res.buf
                    /\ id_counter' = res.id_counter
                    /\ calls' = res.calls
                    /\ counter' = res.counter
                    /\ raised' = res.error
                    /\ pc' = IF res.error = None THEN "assembled" ELSE "raised"
    /\ UNCHANGED <<xml_in, data, root, prev, xml_out, run, files, idx, data_list, locked>>
    /\ UNCHANGED <<tbl, original_records, processed_records>>

\* _patch_docx, "with open(docx_path, "wb") as f: f.write(buf.getvalue())", and
\* the print that follows the call
PatchWrite ==
    /\ pc = "assembled"
    /\ files' = [files EXCEPT ![target_docx(data)] = ZipFile(buf)]
    /\ pc' = "saved"
    /\ UNCHANGED <<xml_in, data, root, prev, counter, id_counter, xml_out, run,
                   idx, buf, calls, data_list, locked, raised>>
    /\ UNCHANGED <<tbl, original_records, processed_records>>

\* the for loop of generate_documents is exhausted
Finish ==
    /\ pc \in {"loop", "saved"}
    /\ idx = Len(data_list)
    /\ pc' = "finished"
    /\ UNCHANGED <<xml_in, data, root, prev, counter, id_counter, xml_out, run,
                   files, idx, buf, calls, data_list, locked, raised>>
    /\ UNCHANGED <<tbl, original_records, processed_records>>

NextBatch ==
    \/ Copy
    \/ PatchAssemble
    \/ PatchWrite
    \/ Finish

----------------------------------------------------------------------------
(* Inputs of the batch: template archives, payload lists, locked paths     *)

MaxEntries == 3
MaxBatch == 2

\* the body of the template: a marker twice after a split placeholder, and an
\* invoice table with a data row and a totals row
TemplateBody ==
    [leaves |-> << <<"Col ">>, <<"D">>, SelfGenerate \o SelfGenerate >>,
     paras  |-> << <<1, 2>>, <<3, 3>> >>,
     ids    |-> <<>>,
     tables |-> << << HeaderRow,
                      Row(<< Cell(<<"n">>), Cell(<<"Col ", "C">>), Cell(<<>>), Cell(<<>>),
                             Cell(<<"Col ", "B">>) >>,
                          << Site("bookmarkStart", <<"1">>), Site("bookmarkEnd", <<"1">>) >>),
                      Row(<< Cell(<<"total">>), Cell(<<>>), Cell(<<>>), Cell(<<>>),
                             Cell(<<"Self ", "generate">>) >>, <<>>) >> >>]

EntryChoices ==
    { Entry(BodyName, XmlBytes(TemplateBody), "deflated"),
      Entry(BodyName, RawBytes("truncated"), "deflated"),
      Entry("word/media/logo.png", RawBytes("png"), "stored"),
      Entry("word/media/logo.png", RawBytes("png2"), "deflated") }

TemplateFiles ==
    {NoFile, OtherFile} \cup {ZipFile(es) : es \in UNION {[1..k -> EntryChoices] : k \in 0..MaxEntries}}

Payload(number, n) ==
    [RecordFull EXCEPT !["Invoice Number"] = number,
                       !["Description"] = List(Descriptions(n)),
                       !["Amount"] = List(Amounts(n))]

\* the i-th record of a month: its invoice number ends in i, it has i items
Payloads == [i \in 1..MaxBatch |-> Payload(Str(<<"may2025", "00">> \o str_int(i)), i)]

Batches == {SubSeq(Payloads, 1, k) : k \in 1..MaxBatch}

Paths(batch) == {TemplatePath} \cup {target_docx(batch[i]) : i \in 1..Len(batch)}

InitBatch ==
    /\ data_list \in Batches
    /\ \E template \in TemplateFiles :
          files = [p \in Paths(data_list) |-> IF p = TemplatePath THEN template ELSE NoFile]
    /\ locked \in {{}, {target_docx(data_list[Len(data_list)])}}
    /\ idx = 0
    /\ pc = "loop"
    /\ buf = <<>>
    /\ calls = 0
    /\ raised = None
    /\ data = AllAbsent
    /\ xml_in = NoBytes
    /\ xml_out = NoBytes
    /\ root = EmptyTree
    /\ prev = EmptyTree
    /\ counter = 0
    /\ id_counter = 0
    /\ run = 1
    /\ NoRecords

SpecBatch == InitBatch /\ [][NextBatch]_vars

----------------------------------------------------------------------------
(* Claims about the archive rewrite and the batch (SpecBatch)              *)

\* the template archive and the archive saved for the current payload
TemplateEntries == files[TemplatePath].entries
SavedEntries == files[target_docx(data)].entries

HasBody(entries) == \E i \in 1..Len(entries) : entries[i].name = BodyName

\* C6: the archive saved by _patch_docx has the template's entries in the
\* template's order, each with its name and compression mode, and every entry
\* other than word/document.xml has the bytes it has in the template.
C6_ArchiveFrame ==
    pc = "saved" =>
        /\ Len(SavedEntries) = Len(TemplateEntries)
        /\ \A i \in 1..Len(TemplateEntries) :
              /\ SavedEntries[i].name = TemplateEntries[i].name
              /\ SavedEntries[i].mode = TemplateEntries[i].mode
              /\ TemplateEntries[i].name # BodyName =>
                    SavedEntries[i].bytes = TemplateEntries[i].bytes

\* C9: a failure for one payload does not end the batch: whenever a document
\* has failed and payloads remain in the list, the loop goes on to the next
\* payload.
C9_FailureIsolated ==
    (pc = "raised" /\ idx < Len(data_list)) => ENABLED Copy

\* C10: for a template archive without a word/document.xml entry the transform
\* is never called, the patch does not complete, and the failure it ends in is
\* EntryMissing.
C10_MissingBodyVisible ==
    (files[TemplatePath].zip /\ ~HasBody(TemplateEntries)) =>
        /\ calls = 0
        /\ pc \notin {"assembled", "saved", "finished"}
        /\ (pc = "raised" /\ raised # "PermissionError") => raised = "EntryMissing"

\* the body entries of the archive assembled for the current payload
BodyEntries == {i \in 1..Len(buf) : buf[i].name = BodyName}

\* the body of the template, as zin.read gives it
TemplateBodyBytes == zip_read(TemplateEntries, BodyName)

\* C11: for every document of a batch, whatever the documents before it left
\* behind, the ordinal pass counts from zero (its first marker occurrence
\* becomes this payload's Invoice Number and its final count is the number of
\* the document's own occurrences), and the identifiers given to the cloned
\* rows start from this document's own identifiers, not from the value the
\* previous document's allocator reached: the body written is the one a
\* generator without history writes.
C11_CounterScope ==
    (pc \in {"assembled", "saved"} /\ BodyEntries # {}) =>
        LET fresh == _transform_document_xml(TemplateBodyBytes, data, 0)
            t     == _find_invoice_table(TemplateBodyBytes.tree)
            used  == ids_at_collect(TemplateBodyBytes.tree, t)
        IN  /\ counter = fresh.counter
            /\ counter = DocumentOccurrences(_replace_placeholders(TemplateBodyBytes.tree, data))
            /\ \A i \in BodyEntries :
                  /\ buf[i].bytes = fresh.xml_out
                  /\ buf[i].bytes.tree.leaves[3] = str_get(data, "Invoice Number") \o SelfGenerate
                  /\ id_value(buf[i].bytes.tree.tables[t][2].ids[1]) =
                        (IF used # {} THEN SetMax(used) + 1 ELSE 1)

\* the second document of a batch was saved by a generator whose first
\* document left a counter and an allocator behind
C11_Witness ==
    /\ pc = "saved"
    /\ idx = 2
    /\ BodyEntries # {}
    /\ counter > 0
    /\ id_counter > 1
    /\ data_list[1] # data_list[2]

\* the archive has an entry for every entry of the template, under its name
Complete(file) ==
    /\ file.zip
    /\ Len(file.entries) = Len(TemplateEntries)
    /\ \A k \in 1..Len(TemplateEntries) : file.entries[k].name = TemplateEntries[k].name

PatchFailures == {"BadZipFile", "ParseError", "IndexError"}

\* C12: the file at an output path is the copy of the template until the whole
\* archive has been assembled in memory, and is then replaced by that whole
\* archive; when opening, parsing or transforming fails, the output path still
\* holds the copy of the template, never a part of the rewritten archive.
C12_OverwriteLast ==
    /\ \A i \in 1..idx :
          LET file == files[target_docx(data_list[i])]
          IN  \/ file = NoFile
              \/ file = files[TemplatePath]
              \/ Complete(file) /\ (i = idx => pc \in {"saved", "finished"} /\ file.entries = buf)
    /\ pc \in {"copied", "assembled"} => files[target_docx(data)] = files[TemplatePath]
    /\ (pc = "raised" /\ raised \in PatchFailures) =>
          files[target_docx(data)] = files[TemplatePath]

\* the transform failed after entries had been written to the in-memory
\* archive, and the output path holds the copy of the template
C12_Witness ==
    /\ pc = "raised"
    /\ raised = "ParseError"
    /\ buf # <<>>
    /\ files[target_docx(data)] = files[TemplatePath]
    /\ Len(TemplateEntries) > Len(buf)

----------------------------------------------------------------------------
(* _find_invoice_table on its own (SpecFind)                               *)

\* tbl = self._find_invoice_table(root)
FindInvoiceTable ==
    /\ pc = "find"
    /\ tbl' = _find_invoice_table(root)
    /\ pc' = "found"
    /\ UNCHANGED <<xml_in, data, root, prev, counter, id_counter, xml_out, run,
                   files, idx, buf, calls, data_list, locked, raised,
                   original_records, processed_records>>

MaxTables == 2

\* the header cells in another column order, and with a sixth column
ReorderedCells == [c \in 1..5 |-> HeaderCells[6 - c]]
WiderCells == <<Cell(<<"Date">>)>> \o HeaderCells

\* the label "unit/ price" split over two runs of its cell
SplitCells == [HeaderCells EXCEPT ![4] = << << <<"Unit">> >>, << <<"/ Price">> >> >>]

\* a row without the "unit" column
ShortCells == <<HeaderCells[1], HeaderCells[2], HeaderCells[4], HeaderCells[5]>>

DataRow == Row(<< Cell(<<"n">>), Cell(<<"d">>), Cell(<<>>), Cell(<<>>), Cell(<<"a">>) >>, <<>>)

\* tables: without rows, with each kind of first row, and with the header row
\* in second place
FindTables ==
    {<<>>, <<DataRow, HeaderRow>>}
      \cup {<<Row(cells, <<>>), DataRow>> :
               cells \in {HeaderCells, ReorderedCells, WiderCells, SplitCells,
                          ShortCells, DecoyCells}}

FindTrees ==
    {[leaves |-> <<>>, paras |-> <<>>, ids |-> <<>>, tables |-> ts] :
        ts \in UNION {[1..k -> FindTables] : k \in 0..MaxTables}}

InitFind ==
    /\ root \in FindTrees
    /\ xml_in = XmlBytes(root)
    /\ data = AllAbsent
    /\ prev = EmptyTree
    /\ pc = "find"
    /\ counter = 0
    /\ id_counter = 0
    /\ xml_out = NoBytes
    /\ run = 1
    /\ raised = None
    /\ NoBatch
    /\ NoRecords

SpecFind == InitFind /\ [][FindInvoiceTable]_vars

\* the table has a first row, and every required label equals the trimmed,
\* lower-cased text of one of that row's cells
Qualifies(table) ==
    /\ table # <<>>
    /\ \A h \in 1..Len(INVOICE_TABLE_HEADERS) :
          \E c \in 1..Len(table[1].cells) :
              str_lower(str_strip(cell_text(table[1].cells[c]))) = INVOICE_TABLE_HEADERS[h]

\* C15: _find_invoice_table returns the first table in document order whose
\* first row has, for each of the five labels, a cell whose trimmed and
\* lower-cased text equals it, in any column order; it returns none when no
\* table qualifies; a cell that contains a label inside a longer text does
\* not count.
C15_TableLocation ==
    pc = "found" =>
        /\ tbl = 0 <=> (\A t \in 1..Len(root.tables) : ~Qualifies(root.tables[t]))
        /\ tbl # 0 =>
              /\ Qualifies(root.tables[tbl])
              /\ \A u \in 1..(tbl - 1) : ~Qualifies(root.tables[u])
        /\ \A t \in 1..Len(root.tables) :
              /\ (root.tables[t] # <<>> /\ root.tables[t][1].cells = DecoyCells) => tbl # t
              /\ (root.tables[t] # <<>> /\ root.tables[t][1].cells = ShortCells) => tbl # t
              /\ (/\ root.tables[t] # <<>>
                  /\ root.tables[t][1].cells \in {ReorderedCells, WiderCells, SplitCells}
                  /\ \A u \in 1..(t - 1) : tbl # u) => tbl = t

\* the second table, whose header is in another column order, was returned
\* after a first table whose header only contains a label as a substring
C15_Witness ==
    /\ pc = "found"
    /\ tbl = 2
    /\ root.tables[1] # <<>>
    /\ root.tables[1][1].cells = DecoyCells
    /\ root.tables[2][1].cells = ReorderedCells

----------------------------------------------------------------------------
(* RecordProcessor (main.py): combining records, invoice details           *)

\* A record of the processor has the fields of a payload and the email; its
\* Date of Entry is a date (read_excel_file stores date objects).
RecordFields == FieldNames \cup {"email"}

Date(y, m, d) == [kind |-> "date", y |-> y, m |-> m, d |-> d]

\* "not record.get('email') or ... str(record.get('email')).strip() == ''"
no_email(record) ==
    \/ record["email"].kind = "absent"
    \/ str_strip(record["email"].s) = <<>>

\* a key whose email is taken as it is written
record_key_untrimmed(record) ==
    <<record["email"].s, <<record["Date of Entry"].m, record["Date of Entry"].y>>>>

\* key = (email, month_year), email stripped
record_key(record) ==
    <<str_strip(record["email"].s), <<record["Date of Entry"].m, record["Date of Entry"].y>>>>

\* the loop of _group_records_by_email_and_date from record i on; groups is the
\* dictionary in insertion order, each group the indices of its records
RECURSIVE group_loop(_, _, _)
group_loop(records, i, groups) ==
    IF i > Len(records) THEN groups
    ELSE IF no_email(records[i]) THEN group_loop(records, i + 1, groups)
    ELSE LET key == record_key(records[i])
         IN  IF \E g \in 1..Len(groups) : groups[g].key = key
             THEN LET g == CHOOSE x \in 1..Len(groups) : groups[x].key = key
                  IN  group_loop(records, i + 1,
                                 [groups EXCEPT ![g].members = Append(@, i)])
             ELSE group_loop(records, i + 1, Append(groups, [key |-> key, members |-> <<i>>]))

_group_records_by_email_and_date(records) == group_loop(records, 1, <<>>)

\* the record built for a group of more than one record
combined_record(records, members) ==
    [records[members[1]] EXCEPT
        !["Amount"] = List([k \in 1..Len(members) |-> records[members[k]]["Amount"]]),
        !["Description"] = List([k \in 1..Len(members) |-> records[members[k]]["Description"]])]

\* result_records and combined_indices of _process_groups
RECURSIVE process_groups_loop(_, _, _, _, _)
process_groups_loop(groups, records, g, result_records, combined_indices) ==
    IF g > Len(groups)
    THEN [result_records |-> result_records, combined_indices |-> combined_indices]
    ELSE IF Len(groups[g].members) > 1
    THEN process_groups_loop(groups, records, g + 1,
             Append(result_records, combined_record(records, groups[g].members)),
             combined_indices \cup {groups[g].members[k] : k \in 1..Len(groups[g].members)})
    ELSE process_groups_loop(groups, records, g + 1, result_records, combined_indices)

_process_groups(groups, records) == process_groups_loop(groups, records, 1, <<>>, {})

\* the indices of the records that were not combined, in their order
uncombined(records, combined_indices) ==
    SelectSeq([i \in 1..Len(records) |-> i], LAMBDA i : i \notin combined_indices)

_combine_records(records) ==
    LET done == _process_groups(_group_records_by_email_and_date(records), records)
        rest == uncombined(records, done.combined_indices)
    IN  done.result_records \o [k \in 1..Len(rest) |-> records[rest[k]]]

\* for each record _combine_records returns, the original record it is (the
\* same object), 0 for a record built for a group
combined_origin(records) ==
    LET done == _process_groups(_group_records_by_email_and_date(records), records)
    IN  [k \in 1..Len(done.result_records) |-> 0]
          \o uncombined(records, done.combined_indices)

\* date.strftime('%b').lower()
MonthAbbr ==
    <<"jan", "feb", "mar", "apr", "may", "jun", "jul", "aug", "sep", "oct", "nov", "dec">>

\* month_year = f"{month_abbr}{year}"
month_year(date) == <<MonthAbbr[date.m]>> \o str_int(date.y)

\* f"{count:03d}"
RECURSIVE zero_pad(_, _)
zero_pad(digits, width) ==
    IF Len(digits) >= width THEN digits ELSE zero_pad(<<"0">> \o digits, width)

\* an invoice number that leaves the count out
invoice_number_uncounted(my, count) == my \o zero_pad(str_int(1), 3)

\* invoice_number = f"{month_year}{count:03d}"
invoice_number(my, count) == my \o zero_pad(str_int(count), 3)

RECURSIVE seq_sum(_)
seq_sum(items) ==
    IF items = <<>> THEN 0 ELSE int_parse(items[1].s, 10) + seq_sum(Tail(items))

\* sum(record['Amount']) for a list, the amount itself otherwise
total_amount(record) ==
    IF record["Amount"].kind = "list" THEN seq_sum(record["Amount"].items)
    ELSE int_parse(record["Amount"].s, 10)

\* num2words.num2words(n), and the same text after str.capitalize()
NumWords == <<"one", "two", "three", "four", "five", "six", "seven", "eight", "nine", "ten">>
CapWords == <<"One", "Two", "Three", "Four", "Five", "Six", "Seven", "Eight", "Nine", "Ten">>

\* amount_in_words.capitalize() for whole amounts (cents = 0)
amount_in_words(total) ==
    IF total > 0
    THEN (IF total <= Len(CapWords) THEN <<CapWords[total]>>
          ELSE <<"Num2words ">> \o str_int(total))
           \o <<" dollar">> \o (IF total # 1 THEN <<"s">> ELSE <<>>)
    ELSE <<"Zero dollars">>

\* the number of records before index i whose month_year is my
count_before(records, i, my) ==
    Cardinality({j \in 1..(i - 1) : month_year(records[j]["Date of Entry"]) = my})

\* _add_invoice_details: month_year_counts[month_year] is, at record i, one
\* more than the number of earlier records with the same month_year
_add_invoice_details(records) ==
    [i \in 1..Len(records) |->
        LET my == month_year(records[i]["Date of Entry"])
        IN  [records[i] EXCEPT
               !["Invoice Number"] = Str(invoice_number(my, count_before(records, i, my) + 1)),
               !["Total Amount"] = Num(str_int(total_amount(records[i]))),
               !["Total Amount in Words"] = Str(amount_in_words(total_amount(records[i])))]]

\* self.processed_records = self._combine_records(self.original_records)
CombineRecords ==
    /\ pc = "process"
    /\ processed_records' = _combine_records(original_records)
    /\ pc' = "combined"
    /\ UNCHANGED <<xml_in, data, root, prev, counter, id_counter, xml_out, run,
                   files, idx, buf, calls, data_list, locked, raised, tbl,
                   original_records>>

\* self.processed_records = self._add_invoice_details(self.processed_records):
\* the records are changed in place, and a record that was not combined is
\* the object original_records holds
AddInvoiceDetails ==
    /\ pc = "combined"
    /\ LET detailed == _add_invoice_details(processed_records)
           origin   == combined_origin(original_records)
       IN  /\ processed_records' = detailed
           /\ original_records' =
                 [i \in 1..Len(original_records) |->
                     IF \E k \in 1..Len(origin) : origin[k] = i
                     THEN detailed[CHOOSE k \in 1..Len(origin) : origin[k] = i]
                     ELSE original_records[i]]
    /\ pc' = "details"
    /\ UNCHANGED <<xml_in, data, root, prev, counter, id_counter, xml_out, run,
                   files, idx, buf, calls, data_list, locked, raised, tbl>>

NextRecords ==
    \/ CombineRecords
    \/ AddInvoiceDetails

MaxRecords == 3

\* emails as typed (one with a leading blank), or none
Emails == {Str(<<"a@x">>), Str(<<" ", "a@x">>), Str(<<"b@x">>), Absent}

\* (year, month) of the entries
Months == {<<2025, 5>>, <<2025, 6>>, <<2024, 5>>}

\* the i-th record of the sheet: its line item, its beneficiary and the day of
\* its date are its own
SheetRecord(i, email, ym) ==
    [f \in RecordFields |->
        CASE f = "email"            -> email
          [] f = "Date of Entry"    -> Date(ym[1], ym[2], i)
          [] f = "Amount"           -> Num(str_int(i))
          [] f = "Description"      -> Str(<<"item">> \o str_int(i))
          [] f = "Beneficiary Name" -> Str(<<"name">> \o str_int(i))
          [] OTHER                  -> Absent]

Sheets ==
    UNION {{[i \in 1..n |-> SheetRecord(i, c[i][1], c[i][2])] : c \in [1..n -> Emails \X Months]} :
              n \in 0..MaxRecords}

InitRecords ==
    /\ original_records \in Sheets
    /\ processed_records = <<>>
    /\ tbl = 0
    /\ pc = "process"
    /\ xml_in = NoBytes
    /\ data = AllAbsent
    /\ root = EmptyTree
    /\ prev = EmptyTree
    /\ counter = 0
    /\ id_counter = 0
    /\ xml_out = NoBytes
    /\ run = 1
    /\ raised = None
    /\ NoBatch

SpecRecords == InitRecords /\ [][NextRecords]_vars

----------------------------------------------------------------------------
(* Claims about the RecordProcessor (SpecRecords)                          *)

\* the records i and j share the trimmed email and the month and year
SameGroup(i, j) ==
    LET a == original_records[i]
        b == original_records[j]
    IN  \/ i = j
        \/ /\ a["email"].kind # "absent"
           /\ b["email"].kind # "absent"
           /\ str_strip(a["email"].s) # <<>>
           /\ str_strip(a["email"].s) = str_strip(b["email"].s)
           /\ a["Date of Entry"].m = b["Date of Entry"].m
           /\ a["Date of Entry"].y = b["Date of Entry"].y

GroupOf(i) == {j \in 1..Len(original_records) : SameGroup(i, j)}

\* the members of a group in their original order
RECURSIVE InOrder(_)
InOrder(S) ==
    IF S = {} THEN <<>>
    ELSE LET least == CHOOSE x \in S : \A y \in S : x <= y
         IN  <<least>> \o InOrder(S \ {least})

\* the fields a processed record takes from an original record
CarriedFields ==
    RecordFields \ {"Amount", "Description", "Invoice Number", "Total Amount",
                    "Total Amount in Words"}

SameCarried(p, o) == \A f \in CarriedFields : p[f] = o[f]

\* the processed record is the combination of the group of record i
IsCombinationOf(p, i) ==
    LET members == InOrder(GroupOf(i))
    IN  /\ p["Amount"].kind = "list"
        /\ p["Description"].kind = "list"
        /\ Len(p["Amount"].items) = Len(p["Description"].items)
        /\ p["Amount"].items = [k \in 1..Len(members) |-> original_records[members[k]]["Amount"]]
        /\ p["Description"].items =
              [k \in 1..Len(members) |-> original_records[members[k]]["Description"]]
        /\ SameCarried(p, original_records[members[1]])

\* the processed record is record i with its Amount and Description
IsUnchanged(p, i) ==
    /\ p["Amount"] = original_records[i]["Amount"]
    /\ p["Description"] = original_records[i]["Description"]
    /\ SameCarried(p, original_records[i])

\* the line items of a processed record, as <<description, amount>> pairs
LineItems(p) ==
    IF p["Amount"].kind = "list"
    THEN [k \in 1..Len(p["Amount"].items) |-> <<p["Description"].items[k], p["Amount"].items[k]>>]
    ELSE << <<p["Description"], p["Amount"]>> >>

Processed == 1..Len(processed_records)

\* C16: process_records combines exactly the records that share the trimmed
\* email and the month and year: a group of two or more gives one processed
\* record with the group's amounts and descriptions as equal-length lists in
\* original order and the other fields of the group's first record; every
\* other record appears once with its Amount and Description unchanged; every
\* line item of the original records is in exactly one processed record,
\* once.
C16_RecordCombination ==
    pc \in {"combined", "details"} =>
        /\ \A i \in 1..Len(original_records) :
              IF Cardinality(GroupOf(i)) >= 2
              THEN Cardinality({k \in Processed : IsCombinationOf(processed_records[k], i)}) = 1
              ELSE Cardinality({k \in Processed : IsUnchanged(processed_records[k], i)}) = 1
        /\ Len(processed_records) = Cardinality({GroupOf(i) : i \in 1..Len(original_records)})
        /\ \A i \in 1..Len(original_records) :
              LET item == <<original_records[i]["Description"], original_records[i]["Amount"]>>
              IN  Cardinality({km \in {x \in Processed \X (1..Len(original_records)) :
                                          x[2] <= Len(LineItems(processed_records[x[1]]))} :
                                  LineItems(processed_records[km[1]])[km[2]] = item}) = 1

\* records were processed of which two, one with a blank before its email,
\* were combined and one was not
C16_Witness ==
    /\ pc = "details"
    /\ Len(original_records) = 3
    /\ Len(processed_records) = 2
    /\ \E i, j \in 1..3 :
          /\ i < j
          /\ SameGroup(i, j)
          /\ original_records[i]["email"] # original_records[j]["email"]

\* C18: the Invoice Numbers of the processed records are pairwise distinct,
\* and so are the output paths generate_documents derives from them.
C18_DistinctInvoiceNumbers ==
    pc = "details" =>
        \A i, j \in Processed :
            i # j =>
                /\ processed_records[i]["Invoice Number"].kind = "str"
                /\ processed_records[i]["Invoice Number"].s # processed_records[j]["Invoice Number"].s
                /\ target_docx(processed_records[i]) # target_docx(processed_records[j])

\* two processed records of one month and year, and one of another year
C18_Witness ==
    /\ pc = "details"
    /\ \E i, j, k \in Processed :
          /\ i < j
          /\ month_year(processed_records[i]["Date of Entry"])
                = month_year(processed_records[j]["Date of Entry"])
          /\ processed_records[k]["Date of Entry"].m = processed_records[i]["Date of Entry"].m
          /\ processed_records[k]["Date of Entry"].y # processed_records[i]["Date of Entry"].y

====
